---- MODULE Spec2Model ----
(***************************************************************************)
(* Composor: the deployment selector of deploy_manager.py (listing,        *)
(* selection by index / filename, rollback with defect marking and report  *)
(* annotation, compose invocation) as a state machine over one artifact    *)
(* directory.                                                              *)
(*                                                                         *)
(* A snapshot is identified by the clock value of the build that wrote it; *)
(* its file name carries that value formatted as a fixed-width decimal     *)
(* string, and the deployer orders snapshots by comparing the names.       *)
(* The content of a report file is an input the deployer reads from disk:  *)
(* the model draws it at the first read and records it, so that a later    *)
(* read sees the same file.                                                *)
(*                                                                         *)
(* The image builder of build_manager.py (clone or update, tag by commit   *)
(* hash, docker build, env file and report) writes the snapshots.  Spec    *)
(* is one deployer invocation over any directory, SpecBuild one builder    *)
(* run, SpecIO the deployer with failing file steps, and SpecLife chains   *)
(* builder and deployer invocations from an empty directory.               *)
(***************************************************************************)
EXTENDS Integers, Sequences, FiniteSets, TLC

\* ------------------------------------------------------------------ bounds

\* Most snapshot files (active or defective) a directory starts with.
MaxSnap == 3

\* Width of the timestamp string in a file name (14 in "%Y%m%d%H%M%S").
TsWidth == 2

\* Most applications a builder configuration lists.
MaxApps == 2

\* ------------------------------------------------------------------ values

\* Python's None for a path, and a path of the directory: the file
\* env_<ts>.env or env_<ts>.env.defect.  EmptyName is the empty string "".
NoPath == [ts |-> 0, suffix |-> "None"]
EmptyName == [ts |-> 0, suffix |-> ""]
EnvPath(t) == [ts |-> t, suffix |-> ".env"]
DefectPath(t) == [ts |-> t, suffix |-> ".env.defect"]

\* An optional integer option of the command line (None when not given).
NoOpt == [given |-> FALSE, value |-> 0]
Opt(v) == [given |-> TRUE, value |-> v]

\* Python truthiness of an optional integer, of a string, of a Path or None.
OptTruthy(o) == o.given /\ o.value # 0
StrTruthy(s) == s # "None" /\ s # ""
NameTruthy(p) == p # NoPath /\ p # EmptyName

NoReason == "None"

\* The content of a report file: what yaml.safe_load gives for it (kind), and
\* its rollback key.  "unobserved": a file not read so far; "absent": no file.
NoRollback == [set |-> FALSE, timestamp |-> <<>>, reason |-> NoReason]
Unobserved == [kind |-> "unobserved", rollback |-> NoRollback]
Absent == [kind |-> "absent", rollback |-> NoRollback]
ReportKinds == {"mapping", "emptymap", "emptydoc", "list", "scalar", "invalid"}
Loaded(k) == [kind |-> k, rollback |-> NoRollback]

\* bool(data), isinstance(data, dict)
Truthy(kind) == kind \in {"mapping", "list", "scalar"}
IsDict(kind) == kind \in {"mapping", "emptymap"}

\* Clock values of the builds that may have written a snapshot: consecutive
\* build times that cross a digit boundary of the formatted timestamp.
Clocks == 9 .. (8 + MaxSnap)

\* ------------------------------------------------------------ pure helpers

RECURSIVE Pow10(_)
Pow10(n) == IF n = 0 THEN 1 ELSE 10 * Pow10(n - 1)

\* The timestamp without zero padding ("%d" in place of the fixed width).
FormatNoPad(t) ==
    IF t < 10 THEN <<t>> ELSE [j \in 1..2 |-> (t \div Pow10(2 - j)) % 10]

\* datetime.now().strftime("%Y%m%d%H%M%S"): zero-padded decimal digits.
Format(t) == [j \in 1..TsWidth |-> (t \div Pow10(TsWidth - j)) % 10]

\* get_timestamp(): the time of the rollback, later than every build.
get_timestamp == Format(9 + MaxSnap)

\* Python's str comparison on the timestamp part of two names
\* ("env_" and ".env" are common to all names compared).
StrLess(a, b) ==
    \/ \E j \in 1..Len(a) :
          /\ j <= Len(b)
          /\ \A h \in 1..(j - 1) : a[h] = b[h]
          /\ a[j] < b[j]
    \/ /\ Len(a) < Len(b)
       /\ \A h \in 1..Len(a) : a[h] = b[h]

\* sorted(paths): ascending by name.
RECURSIVE SortedAscending(_)
SortedAscending(S) ==
    IF S = {} THEN <<>>
    ELSE LET m == CHOOSE x \in S : \A y \in S \ {x} : StrLess(Format(x), Format(y))
         IN  <<m>> \o SortedAscending(S \ {m})

\* sorted(paths, reverse=True): descending by name.
RECURSIVE SortedReverse(_)
SortedReverse(S) ==
    IF S = {} THEN <<>>
    ELSE LET m == CHOOSE x \in S : \A y \in S \ {x} : StrLess(Format(y), Format(x))
         IN  <<m>> \o SortedReverse(S \ {m})

\* env_dir.glob("env_*.env"): the active snapshots; *.env.defect does not match.
GlobEnv(e) == {t \in Clocks : e[t] = "active"}

\* The listing without reverse=True: oldest first.
list_env_files_ascending(e) == SortedAscending(GlobEnv(e))

list_env_files(e) == SortedReverse(GlobEnv(e))

Min(a, b) == IF a < b THEN a ELSE b
Max(a, b) == IF a > b THEN a ELSE b

\* The slice taken one element too far, seq[0:index + 1].
SliceEndInclusive(index, len) ==
    IF index + 1 < 0 THEN Max(0, len + index + 1) ELSE Min(index + 1, len)

\* Python's seq[0:index]: the number of leading elements the slice holds.
SliceEnd(index, len) ==
    IF index < 0 THEN Max(0, len + index) ELSE Min(index, len)

\* path.exists() for a path of the directory.
PathExists(e, p) ==
    \/ p.suffix = ".env" /\ p.ts \in Clocks /\ e[p.ts] = "active"
    \/ p.suffix = ".env.defect" /\ p.ts \in Clocks /\ e[p.ts] = "defective"

\* enumerate(envs): the lines "idx: name" that --list prints.
Enumerate(envs) == [j \in 1..Len(envs) |-> [idx |-> j - 1, name |-> EnvPath(envs[j])]]

\* ---------------------------------------------------- builder: pure helpers

\* Application names as character sequences: a plain one, one with a run of
\* a dash and a space, one with a character that is no letter, digit, dash or
\* whitespace.
App1 == <<"a", "p", "p", "1">>
WebApi == <<"w", "e", "b", "-", " ", "a", "p", "i">>
DbV2 == <<"d", "b", ".", "v", "2">>
NameVals == {App1, WebApi, DbV2}

LowerCase ==
    <<"a", "b", "c", "d", "e", "f", "g", "h", "i", "j", "k", "l", "m",
      "n", "o", "p", "q", "r", "s", "t", "u", "v", "w", "x", "y", "z">>
UpperCase ==
    <<"A", "B", "C", "D", "E", "F", "G", "H", "I", "J", "K", "L", "M",
      "N", "O", "P", "Q", "R", "S", "T", "U", "V", "W", "X", "Y", "Z">>
Digits == {"0", "1", "2", "3", "4", "5", "6", "7", "8", "9"}
Range(s) == {s[j] : j \in 1..Len(s)}

\* str.upper(): letters a-z to A-Z, every other character as it is.
UpperChar(c) ==
    IF c \in Range(LowerCase)
    THEN UpperCase[CHOOSE j \in 1..Len(LowerCase) : LowerCase[j] = c]
    ELSE c
Upper(s) == [j \in 1..Len(s) |-> UpperChar(s[j])]

\* The classes [\s\-] and [0-9A-Za-z_] of normalize_name's patterns.
IsSpaceOrDash(c) == c \in {" ", "\t", "-"}
IsWordChar(c) == c \in Range(LowerCase) \cup Range(UpperCase) \cup Digits \cup {"_"}

\* re.sub(r"[\s\-]+", "_", name): every maximal run becomes one underscore.
RECURSIVE DropRun(_)
DropRun(s) ==
    IF s # <<>> /\ IsSpaceOrDash(Head(s)) THEN DropRun(Tail(s)) ELSE s

RECURSIVE CollapseRuns(_)
CollapseRuns(s) ==
    IF s = <<>> THEN <<>>
    ELSE IF IsSpaceOrDash(Head(s)) THEN <<"_">> \o CollapseRuns(DropRun(s))
    ELSE <<Head(s)>> \o CollapseRuns(Tail(s))

\* re.sub(r"[^0-9A-Za-z_]", "", norm)
RemoveInvalid(s) == SelectSeq(s, IsWordChar)

normalize_name(name) == Upper(RemoveInvalid(CollapseRuns(name)))

\* The text "_IMAGE" of an env line's key.
ImageSuffix == <<"_", "I", "M", "A", "G", "E">>

\* image_tag = f"{app_name}:{git_hash}"
Tag(app_name, git_hash) == [name |-> app_name, hash |-> git_hash]

\* What "git rev-parse --short HEAD" gives: the hash with exit 0, or a
\* non-zero exit with nothing or with the text HEAD on its standard output.
RevParseVals ==
    {[ok |-> TRUE, stdout |-> "abc"],
     [ok |-> FALSE, stdout |-> ""],
     [ok |-> FALSE, stdout |-> "HEAD"]}

\* The configurations: apps lists of up to MaxApps descriptors (a name may
\* occur twice).
ConfigVals ==
    UNION {[1..n -> [name : NameVals]] : n \in 0..MaxApps}

\* The tags of images a machine may hold from earlier builds.
ImageVals == {Tag(n, "abc") : n \in NameVals}

\* d[k] = v on a dict kept in insertion order: a key that is present keeps
\* its place and gets the new value.  The mapping as a list that appends.
DictAppend(d, k, v) == Append(d, [name |-> k, tag |-> v])

DictSet(d, k, v) ==
    IF \E j \in 1..Len(d) : d[j].name = k
    THEN [j \in 1..Len(d) |-> IF d[j].name = k THEN [name |-> k, tag |-> v] ELSE d[j]]
    ELSE Append(d, [name |-> k, tag |-> v])

\* lines = [f"{name.upper()}_IMAGE={tag}" for name, tag in app_images.items()]
EnvLines(app_images) ==
    [j \in 1..Len(app_images) |->
        [key |-> Upper(app_images[j].name) \o ImageSuffix, tag |-> app_images[j].tag]]

\* The "apps" list of report_data.
ReportAppsOf(app_images) ==
    [j \in 1..Len(app_images) |->
        [name |-> app_images[j].name, image_tag |-> app_images[j].tag]]

\* datetime.now(): a build starts later than every snapshot of the directory
\* was written.
Now(e) ==
    LET present == {t \in Clocks : e[t] # "absent"}
    IN  IF present = {} THEN 9
        ELSE 1 + (CHOOSE t \in present : \A u \in present : u <= t)

\* ------------------------------------------------------------------- state

VARIABLES
    env,          \* [Clocks -> "absent" | "active" | "defective"]: env_<ts>.env[.defect]
    report,       \* [Clocks -> content]: the file report_<ts>.yaml
    retired,      \* [Clocks -> content]: the file report_<ts>.yaml.defect the deployer wrote
    fsops,        \* the renames and writes of the current invocation, in order
    pc,           \* position of the invocation
    args,         \* main's parsed command line
    call,         \* get_env_file's parameters, and who called it
    env_files,    \* get_env_file's local: the listing taken on entry
    i,            \* get_env_file's loop position in env_files[0:index]
    result,       \* get_env_file's return value
    raised,       \* the exception that ended the invocation, or "None"
    outcome,      \* how the invocation ended
    listing,      \* what --list printed
    composeCalls, \* the compose commands handed to run_cmd
    env0,         \* the snapshots before the invocation
    report0       \* the reports before the invocation

VARIABLES
    build,        \* the builder's locals: config, dry, loop position, app_images, timestamp
    cmds,         \* the subprocesses the builder ran, in order
    madeDirs,     \* the directories the builder created
    images,       \* the image tags the local docker holds
    envLines,     \* [Clocks -> lines]: the content of env_<ts>.env as the builder wrote it
    reportData    \* [Clocks -> report_data]: report_<ts>.yaml as the builder wrote it

VARIABLE
    last          \* what the invocation before this one did and selected

builderVars == <<build, cmds, madeDirs, images, envLines, reportData>>

vars == <<env, report, retired, fsops, pc, args, call, env_files, i, result,
          raised, outcome, listing, composeCalls, env0, report0, builderVars, last>>

dirVars == <<env, report, retired, fsops>>

NoArgs ==
    [rollback |-> NoOpt, switch |-> NoOpt, reason |-> NoReason, file |-> NoPath,
     list |-> FALSE, dry |-> FALSE]

NoCall ==
    [caller |-> "None", index |-> 0, file |-> NoPath, rollback |-> FALSE,
     reason |-> NoReason, dry |-> FALSE]

\* ------------------------------------------------------------------ inputs

\* Index values of --rollback, --switch and of get_env_file's index: a
\* negative one, 0, and up to one position past the fullest directory.
IndexVals == (0 - 1) .. MaxSnap

OptVals == {NoOpt} \cup {Opt(v) : v \in IndexVals}

ReasonVals == {NoReason, "bad build"}

\* --file: not given, the empty string, the name of the oldest build's
\* snapshot, and the name that snapshot has once it is defective.
FileVals == {NoPath, EmptyName, EnvPath(9), DefectPath(9)}

\* The command lines main is run with.  --list returns before --file and
\* --dry are read, so those are left at their defaults with --list.
ArgVals ==
    {a \in [rollback : OptVals, switch : OptVals, reason : ReasonVals,
            file : FileVals, list : BOOLEAN, dry : BOOLEAN] :
        a.list => (a.file = NoPath /\ ~a.dry)}

\* What shutil.which and "docker compose version" find on the machine.
ToolVals == {"docker-compose", "docker-plugin", "docker-no-plugin", "none"}

\* No invocation before this one.
NoLast == [call |-> NoCall, result |-> NoPath]

\* The builder before main runs: no locals, nothing run or written.
NoBuild ==
    [config |-> <<>>, dry |-> FALSE, idx |-> 0, app_images |-> <<>>, timestamp |-> 0]

\* No report_data written.
NoReportData == [timestamp |-> <<>>, env_file |-> NoPath, apps |-> <<>>]

BuilderAtRest ==
    /\ build = NoBuild
    /\ cmds = <<>>
    /\ madeDirs = {}
    /\ envLines = [t \in Clocks |-> <<>>]
    /\ reportData = [t \in Clocks |-> NoReportData]

\* The directories an invocation starts from: up to MaxSnap builds, each
\* snapshot active or marked defective by an earlier rollback.
Init ==
    /\ \E M \in 0..MaxSnap :
          env \in {e \in [Clocks -> {"absent", "active", "defective"}] :
                      \A t \in Clocks : (e[t] = "absent") <=> (t > 8 + M)}
    /\ report = [t \in Clocks |-> Unobserved]
    /\ retired = [t \in Clocks |-> Absent]
    /\ fsops = <<>>
    /\ pc = "idle"
    /\ args = NoArgs
    /\ call = NoCall
    /\ env_files = <<>>
    /\ i = 0
    /\ result = NoPath
    /\ raised = "None"
    /\ outcome = "None"
    /\ listing = <<>>
    /\ composeCalls = <<>>
    /\ env0 = env
    /\ report0 = report
    /\ BuilderAtRest
    /\ images = {}
    /\ last = NoLast

\* ----------------------------------------------------------------- actions

\* main, lines 214-215: the index handed to get_env_file.
env_deploy(a) ==
    LET byRollback == IF OptTruthy(a.rollback) THEN a.rollback.value ELSE 0
    IN  IF OptTruthy(a.switch) THEN a.switch.value ELSE byRollback

\* main, lines 192-223: parse, validate, list, or call get_env_file.
MainStart(a) ==
    /\ pc = "idle"
    /\ args' = a
    /\ env0' = env
    /\ report0' = report
    /\ IF OptTruthy(a.rollback) /\ ~StrTruthy(a.reason)
       THEN /\ outcome' = "error_reason_required"
            /\ pc' = "done"
            /\ UNCHANGED <<call, listing>>
       ELSE IF OptTruthy(a.rollback) /\ OptTruthy(a.switch)
       THEN /\ outcome' = "error_mutually_exclusive"
            /\ pc' = "done"
            /\ UNCHANGED <<call, listing>>
       ELSE IF list_env_files(env) = <<>>
       THEN /\ outcome' = "nothing_to_deploy"
            /\ pc' = "done"
            /\ UNCHANGED <<call, listing>>
       ELSE IF a.list
       THEN /\ listing' = Enumerate(list_env_files(env))
            /\ outcome' = "listed"
            /\ pc' = "done"
            /\ UNCHANGED call
       ELSE /\ call' = [caller |-> "main", index |-> env_deploy(a), file |-> a.file,
                        rollback |-> OptTruthy(a.rollback), reason |-> a.reason,
                        dry |-> a.dry]
            /\ pc' = "get_env_file"
            /\ UNCHANGED <<outcome, listing>>
    /\ UNCHANGED <<builderVars, last>>
    /\ UNCHANGED <<dirVars, env_files, i, result, raised, composeCalls>>

\* A direct call of get_env_file(env_dir, index, file, rollback, reason, dry_run).
CallGetEnvFile(index, file, rollback, reason, dry) ==
    /\ pc = "idle"
    /\ call' = [caller |-> "api", index |-> index, file |-> file,
                rollback |-> rollback, reason |-> reason, dry |-> dry]
    /\ env0' = env
    /\ report0' = report
    /\ pc' = "get_env_file"
    /\ UNCHANGED <<builderVars, last>>
    /\ UNCHANGED <<dirVars, args, env_files, i, result, raised, outcome, listing,
                   composeCalls>>

\* get_env_file returns res: to the caller of the API, or to main's lines
\* 224-228 (a Path is truthy, None is not).
Return(res) ==
    /\ result' = res
    /\ IF call.caller = "main"
       THEN IF res = NoPath
            THEN pc' = "done" /\ outcome' = "error_no_env_file"
            ELSE pc' = "deploy" /\ outcome' = outcome
       ELSE pc' = "done" /\ outcome' = "returned"

\* get_env_file with the rollback branch tested before the file name.
GetEnvFileEnterRollbackFirst ==
    /\ pc = "get_env_file"
    /\ env_files' = list_env_files(env)
    /\ IF env_files' = <<>>
       THEN Return(NoPath) /\ i' = i
       ELSE IF call.rollback /\ SliceEnd(call.index, Len(env_files')) > 0
       THEN pc' = "mark_defective" /\ i' = 1 /\ UNCHANGED <<result, outcome>>
       ELSE IF NameTruthy(call.file)
       THEN Return(IF PathExists(env, call.file) THEN call.file ELSE NoPath) /\ i' = i
       ELSE pc' = "select" /\ UNCHANGED <<i, result, outcome>>
    /\ UNCHANGED <<builderVars, last>>
    /\ UNCHANGED <<dirVars, args, call, raised, listing, composeCalls, env0, report0>>

\* get_env_file, lines 92-103: list, the empty directory, the explicit file,
\* and the entry of the rollback loop over env_files[0:index].
GetEnvFileEnter ==
    /\ pc = "get_env_file"
    /\ env_files' = list_env_files(env)
    /\ IF env_files' = <<>>
       THEN Return(NoPath) /\ i' = i
       ELSE IF NameTruthy(call.file)
       THEN Return(IF PathExists(env, call.file) THEN call.file ELSE NoPath) /\ i' = i
       ELSE IF call.rollback /\ SliceEnd(call.index, Len(env_files')) > 0
       THEN pc' = "mark_defective" /\ i' = 1 /\ UNCHANGED <<result, outcome>>
       ELSE pc' = "select" /\ UNCHANGED <<i, result, outcome>>
    /\ UNCHANGED <<builderVars, last>>
    /\ UNCHANGED <<dirVars, args, call, raised, listing, composeCalls, env0, report0>>

\* The candidates taken from the oldest to the newest.
MarkDefectiveOldestFirst ==
    /\ pc = "mark_defective"
    /\ LET f == env_files[SliceEnd(call.index, Len(env_files)) - i + 1]
       IN  IF call.dry
           THEN UNCHANGED <<env, fsops>>
           ELSE /\ env' = [env EXCEPT ![f] = "defective"]
                /\ fsops' = Append(fsops, [op |-> "rename", file |-> "env", ts |-> f])
    /\ pc' = "update_yaml_report"
    /\ UNCHANGED <<builderVars, last>>
    /\ UNCHANGED <<report, retired, args, call, env_files, i, result, raised,
                   outcome, listing, composeCalls, env0, report0>>

\* The file removed in place of renamed.
MarkDefectiveUnlinks ==
    /\ pc = "mark_defective"
    /\ IF call.dry
       THEN UNCHANGED <<env, fsops>>
       ELSE /\ env' = [env EXCEPT ![env_files[i]] = "absent"]
            /\ fsops' = Append(fsops, [op |-> "unlink", file |-> "env", ts |-> env_files[i]])
    /\ pc' = "update_yaml_report"
    /\ UNCHANGED <<builderVars, last>>
    /\ UNCHANGED <<report, retired, args, call, env_files, i, result, raised,
                   outcome, listing, composeCalls, env0, report0>>

\* mark_defective(f, dry_run) for f = env_files[i], lines 74-80.
MarkDefective ==
    /\ pc = "mark_defective"
    /\ IF call.dry
       THEN UNCHANGED <<env, fsops>>
       ELSE /\ env' = [env EXCEPT ![env_files[i]] = "defective"]
            /\ fsops' = Append(fsops, [op |-> "rename", file |-> "env", ts |-> env_files[i]])
    /\ pc' = "update_yaml_report"
    /\ UNCHANGED <<builderVars, last>>
    /\ UNCHANGED <<report, retired, args, call, env_files, i, result, raised,
                   outcome, listing, composeCalls, env0, report0>>

\* The loop ending one file early.
LoopNextStopsEarly ==
    IF i < SliceEnd(call.index, Len(env_files)) - 1
    THEN pc' = "mark_defective" /\ i' = i + 1
    ELSE pc' = "select" /\ i' = i

\* The loop of lines 104-106 goes on to its next file, or ends.
LoopNext ==
    IF i < SliceEnd(call.index, Len(env_files))
    THEN pc' = "mark_defective" /\ i' = i + 1
    ELSE pc' = "select" /\ i' = i

\* The exception exc leaves get_env_file and main: the invocation is over.
Raise(exc) ==
    /\ raised' = exc
    /\ outcome' = "raised"
    /\ pc' = "done"

\* What the file report_<ts>.yaml holds when it is read: what was read or
\* written before, or, at the first read, any content.
ReadReport(t) ==
    IF report[t] = Unobserved
    THEN {Absent} \cup {Loaded(k) : k \in ReportKinds}
    ELSE {report[t]}

\* The annotation with the reason left out.
AnnotatedWithoutReason(reason) ==
    [kind |-> "mapping",
     rollback |-> [set |-> TRUE, timestamp |-> get_timestamp, reason |-> NoReason]]

\* The report after data.update({"rollback": ...}) and yaml.dump.
Annotated(reason) ==
    [kind |-> "mapping",
     rollback |-> [set |-> TRUE, timestamp |-> get_timestamp, reason |-> reason]]

\* The report update with the dry-run return taken before the file is loaded.
UpdateYamlReportDryFirst ==
    /\ pc = "update_yaml_report"
    /\ \E data \in ReadReport(env_files[i]) :
          /\ report0' = [report0 EXCEPT ![env_files[i]] = data]
          /\ IF data = Absent \/ call.dry
             THEN /\ report' = [report EXCEPT ![env_files[i]] = data]
                  /\ LoopNext
                  /\ UNCHANGED <<retired, fsops, raised, outcome>>
             ELSE IF data.kind = "invalid"
             THEN /\ report' = [report EXCEPT ![env_files[i]] = data]
                  /\ Raise("YAMLError")
                  /\ UNCHANGED <<retired, fsops, i>>
             ELSE IF ~Truthy(data.kind) /\ ~IsDict(data.kind)
             THEN /\ report' = [report EXCEPT ![env_files[i]] = data]
                  /\ LoopNext
                  /\ UNCHANGED <<retired, fsops, raised, outcome>>
             ELSE IF ~IsDict(data.kind)
             THEN /\ report' = [report EXCEPT ![env_files[i]] = data]
                  /\ Raise("AttributeError")
                  /\ UNCHANGED <<retired, fsops, i>>
             ELSE /\ report' = [report EXCEPT ![env_files[i]] = Absent]
                  /\ retired' = [retired EXCEPT ![env_files[i]] = Annotated(call.reason)]
                  /\ fsops' = fsops \o
                       << [op |-> "write", file |-> "report", ts |-> env_files[i]],
                          [op |-> "rename", file |-> "report", ts |-> env_files[i]] >>
                  /\ LoopNext
                  /\ UNCHANGED <<raised, outcome>>
    /\ UNCHANGED <<builderVars, last>>
    /\ UNCHANGED <<env, args, call, env_files, result, listing, composeCalls, env0>>

\* update_yaml_report(f, reason, dry_run) for f = env_files[i], lines 45-71.
\* What is read at the first read is what the file held before the invocation.
UpdateYamlReport ==
    /\ pc = "update_yaml_report"
    /\ \E data \in ReadReport(env_files[i]) :
          /\ report0' = [report0 EXCEPT ![env_files[i]] = data]
          /\ IF data = Absent
             THEN /\ report' = [report EXCEPT ![env_files[i]] = data]
                  /\ LoopNext
                  /\ UNCHANGED <<retired, fsops, raised, outcome>>
             ELSE IF data.kind = "invalid"
             THEN /\ report' = [report EXCEPT ![env_files[i]] = data]
                  /\ Raise("YAMLError")
                  /\ UNCHANGED <<retired, fsops, i>>
             ELSE IF ~Truthy(data.kind) /\ ~IsDict(data.kind)
             THEN /\ report' = [report EXCEPT ![env_files[i]] = data]
                  /\ LoopNext
                  /\ UNCHANGED <<retired, fsops, raised, outcome>>
             ELSE IF ~IsDict(data.kind)
             THEN /\ report' = [report EXCEPT ![env_files[i]] = data]
                  /\ Raise("AttributeError")
                  /\ UNCHANGED <<retired, fsops, i>>
             ELSE IF call.dry
             THEN /\ report' = [report EXCEPT ![env_files[i]] = data]
                  /\ LoopNext
                  /\ UNCHANGED <<retired, fsops, raised, outcome>>
             ELSE /\ report' = [report EXCEPT ![env_files[i]] = Absent]
                  /\ retired' = [retired EXCEPT ![env_files[i]] = Annotated(call.reason)]
                  /\ fsops' = fsops \o
                       << [op |-> "write", file |-> "report", ts |-> env_files[i]],
                          [op |-> "rename", file |-> "report", ts |-> env_files[i]] >>
                  /\ LoopNext
                  /\ UNCHANGED <<raised, outcome>>
    /\ UNCHANGED <<builderVars, last>>
    /\ UNCHANGED <<env, args, call, env_files, result, listing, composeCalls, env0>>

\* The selection without the lower bound 0 <= index: a negative index counts
\* from the end of the list, as Python's indexing does.
SelectNoLowerBound ==
    /\ pc = "select"
    /\ IF call.index < Len(env_files) /\ 0 - call.index <= Len(env_files)
       THEN Return(EnvPath(env_files[IF call.index >= 0 THEN call.index + 1
                                     ELSE Len(env_files) + call.index + 1]))
       ELSE Return(NoPath)
    /\ UNCHANGED <<builderVars, last>>
    /\ UNCHANGED <<dirVars, args, call, env_files, i, raised, listing,
                   composeCalls, env0, report0>>

\* get_env_file, lines 108-112: the snapshot at the index, or None.
Select ==
    /\ pc = "select"
    /\ IF 0 <= call.index /\ call.index < Len(env_files)
       THEN Return(EnvPath(env_files[call.index + 1]))
       ELSE Return(NoPath)
    /\ UNCHANGED <<builderVars, last>>
    /\ UNCHANGED <<dirVars, args, call, env_files, i, raised, listing,
                   composeCalls, env0, report0>>

\* deploy's command, lines 125-135 (the -f flags are passed through).
ComposeCmd(compose_cmd, env_file, restart, stop) ==
    [tool |-> compose_cmd, env_file |-> env_file,
     mode |-> IF restart THEN "up --force-recreate"
              ELSE IF stop THEN "down" ELSE "up"]

\* deploy(env_file, compose, restart, stop, dry), lines 115-141, with
\* check_docker_compose, lines 24-37, on a machine that holds `tool`.
Deploy(tool, restart, stop) ==
    /\ pc = "deploy"
    /\ IF tool = "none"
       THEN Raise("RuntimeError") /\ UNCHANGED composeCalls
       ELSE IF tool = "docker-no-plugin"
       THEN Raise("CalledProcessError") /\ UNCHANGED composeCalls
       ELSE /\ composeCalls' =
                 IF args.dry THEN composeCalls
                 ELSE Append(composeCalls,
                        ComposeCmd(IF tool = "docker-compose" THEN "docker-compose"
                                   ELSE "docker compose", result, restart, stop))
            /\ outcome' = "deployed"
            /\ pc' = "done"
            /\ UNCHANGED raised
    /\ UNCHANGED <<builderVars, last>>
    /\ UNCHANGED <<dirVars, args, call, env_files, i, result, listing, env0, report0>>

Next ==
    \/ \E a \in ArgVals : MainStart(a)
    \/ \E index \in IndexVals, file \in FileVals, rollback \in BOOLEAN,
          reason \in ReasonVals, dry \in BOOLEAN :
          CallGetEnvFile(index, file, rollback, reason, dry)
    \/ GetEnvFileEnter
    \/ MarkDefective
    \/ UpdateYamlReport
    \/ Select
    \/ \E tool \in ToolVals, restart \in BOOLEAN, stop \in BOOLEAN :
          Deploy(tool, restart, stop)

Spec == Init /\ [][Next]_vars

\* ---------------------------------------------------------- builder actions

\* A subprocess that was executed: the command, the application and tag it
\* was run for, whether it exited with 0, and whether the local docker held
\* an image of that tag when it ran.
Ran(cmd, tag, ok) == [cmd |-> cmd, tag |-> tag, ok |-> ok, existed |-> tag \in images]

\* build_manager.main, lines 107-123: the configuration file is missing, or
\* it is loaded and the timestamp of the run is taken.
BuildStart(cfg, dry, configExists) ==
    /\ pc = "idle"
    /\ Now(env) \in Clocks
    /\ env0' = env
    /\ report0' = report
    /\ IF ~configExists
       THEN /\ outcome' = "exit_1_no_config"
            /\ pc' = "done"
            /\ UNCHANGED build
       ELSE /\ build' = [config |-> cfg, dry |-> dry, idx |-> 1, app_images |-> <<>>,
                         timestamp |-> Now(env)]
            /\ pc' = IF cfg = <<>> THEN "b_env" ELSE "b_clone"
            /\ UNCHANGED outcome
    /\ UNCHANGED <<dirVars, args, call, env_files, i, result, raised, listing,
                   composeCalls, cmds, madeDirs, images, envLines, reportData, last>>

\* clone_or_update_repo(app, base_dir, dry), lines 23-35, for the app at the
\* loop position: app_path exists or not, and git exits with 0 or not
\* (run_cmd runs with check=True, and runs nothing when dry).
CloneOrUpdateRepo(exists, ok) ==
    /\ pc = "b_clone"
    /\ LET app == build.config[build.idx]
       IN  IF build.dry
           THEN /\ pc' = "b_build"
                /\ UNCHANGED <<cmds, madeDirs, raised, outcome>>
           ELSE /\ cmds' = Append(cmds, Ran(IF exists THEN "git pull" ELSE "git clone",
                                            Tag(app.name, ""), ok))
                /\ madeDirs' = IF exists THEN madeDirs ELSE madeDirs \cup {"base_dir"}
                /\ IF ok
                   THEN pc' = "b_build" /\ UNCHANGED <<raised, outcome>>
                   ELSE Raise("CalledProcessError")
    /\ UNCHANGED <<dirVars, args, call, env_files, i, result, listing, composeCalls,
                   env0, report0, build, images, envLines, reportData, last>>

\* build_docker_image(app, base_dir, dry), lines 38-56, and main's line 127:
\* rev-parse runs without check, docker build runs through run_cmd.
BuildDockerImage(rev, buildOk) ==
    /\ pc = "b_build"
    /\ LET app == build.config[build.idx]
           git_hash == IF build.dry THEN "DRY" ELSE rev.stdout
           image_tag == Tag(app.name, git_hash)
           recorded == [build EXCEPT
                           !.app_images = DictSet(build.app_images, app.name, image_tag),
                           !.idx = build.idx + 1]
           next_pc == IF build.idx < Len(build.config) THEN "b_clone" ELSE "b_env"
       IN  IF build.dry
           THEN /\ build' = recorded
                /\ pc' = next_pc
                /\ UNCHANGED <<cmds, images, raised, outcome>>
           ELSE /\ cmds' = cmds \o << Ran("git rev-parse", Tag(app.name, ""), rev.ok),
                                      Ran("docker build", image_tag, buildOk) >>
                /\ IF buildOk
                   THEN /\ images' = images \cup {image_tag}
                        /\ build' = recorded
                        /\ pc' = next_pc
                        /\ UNCHANGED <<raised, outcome>>
                   ELSE /\ Raise("CalledProcessError")
                        /\ UNCHANGED <<images, build>>
    /\ UNCHANGED <<dirVars, args, call, env_files, i, result, listing, composeCalls,
                   env0, report0, madeDirs, envLines, reportData, last>>

\* The env file written without regard to the dry flag.
CreateConsolidatedEnvIgnoringDry ==
    /\ pc = "b_env"
    /\ IF build.app_images = <<>>
       THEN /\ outcome' = "exit_1_no_apps"
            /\ pc' = "done"
            /\ UNCHANGED <<env, fsops, madeDirs, envLines>>
       ELSE /\ madeDirs' = madeDirs \cup {"env_dir"}
            /\ env' = [env EXCEPT ![build.timestamp] = "active"]
            /\ envLines' = [envLines EXCEPT ![build.timestamp] = EnvLines(build.app_images)]
            /\ fsops' = Append(fsops, [op |-> "write", file |-> "env", ts |-> build.timestamp])
            /\ pc' = "b_report"
            /\ UNCHANGED outcome
    /\ UNCHANGED <<report, retired, args, call, env_files, i, result, raised, listing,
                   composeCalls, env0, report0, build, cmds, images, reportData, last>>

\* main, lines 129-135, and create_consolidated_env, lines 59-69.
CreateConsolidatedEnv ==
    /\ pc = "b_env"
    /\ IF build.app_images = <<>>
       THEN /\ outcome' = "exit_1_no_apps"
            /\ pc' = "done"
            /\ UNCHANGED <<env, fsops, madeDirs, envLines>>
       ELSE IF build.dry
       THEN /\ pc' = "b_report"
            /\ UNCHANGED <<env, fsops, madeDirs, envLines, outcome>>
       ELSE /\ madeDirs' = madeDirs \cup {"env_dir"}
            /\ env' = [env EXCEPT ![build.timestamp] = "active"]
            /\ envLines' = [envLines EXCEPT ![build.timestamp] = EnvLines(build.app_images)]
            /\ fsops' = Append(fsops, [op |-> "write", file |-> "env", ts |-> build.timestamp])
            /\ pc' = "b_report"
            /\ UNCHANGED outcome
    /\ UNCHANGED <<report, retired, args, call, env_files, i, result, raised, listing,
                   composeCalls, env0, report0, build, cmds, images, reportData, last>>

\* generate_consolidated_report, lines 72-91 (report_dir is the env
\* directory), and the end of main.
GenerateConsolidatedReport ==
    /\ pc = "b_report"
    /\ IF build.dry
       THEN UNCHANGED <<report, fsops, madeDirs, reportData>>
       ELSE /\ madeDirs' = madeDirs \cup {"env_dir"}
            /\ report' = [report EXCEPT ![build.timestamp] = Loaded("mapping")]
            /\ reportData' = [reportData EXCEPT ![build.timestamp] =
                                [timestamp |-> Format(build.timestamp),
                                 env_file |-> EnvPath(build.timestamp),
                                 apps |-> ReportAppsOf(build.app_images)]]
            /\ fsops' = Append(fsops, [op |-> "write", file |-> "report",
                                       ts |-> build.timestamp])
    /\ outcome' = "built"
    /\ pc' = "done"
    /\ UNCHANGED <<env, retired, args, call, env_files, i, result, raised, listing,
                   composeCalls, env0, report0, build, cmds, images, envLines, last>>

\* The machines a build starts on: an empty artifact directory, and any
\* images left by earlier builds.
InitBuild ==
    /\ env = [t \in Clocks |-> "absent"]
    /\ report = [t \in Clocks |-> Absent]
    /\ retired = [t \in Clocks |-> Absent]
    /\ fsops = <<>>
    /\ pc = "idle"
    /\ args = NoArgs
    /\ call = NoCall
    /\ env_files = <<>>
    /\ i = 0
    /\ result = NoPath
    /\ raised = "None"
    /\ outcome = "None"
    /\ listing = <<>>
    /\ composeCalls = <<>>
    /\ env0 = env
    /\ report0 = report
    /\ BuilderAtRest
    /\ images \in SUBSET ImageVals
    /\ last = NoLast

NextBuild ==
    \/ \E cfg \in ConfigVals, dry \in BOOLEAN, configExists \in BOOLEAN :
          BuildStart(cfg, dry, configExists)
    \/ \E exists \in BOOLEAN, ok \in BOOLEAN : CloneOrUpdateRepo(exists, ok)
    \/ \E rev \in RevParseVals, buildOk \in BOOLEAN : BuildDockerImage(rev, buildOk)
    \/ CreateConsolidatedEnv
    \/ GenerateConsolidatedReport

SpecBuild == InitBuild /\ [][NextBuild]_vars

\* ------------------------------------------------------- failing file steps

\* mark_defective, line 79: file_path.rename raises (OSError), nothing is
\* renamed, and the exception ends the invocation.
MarkDefectiveFails ==
    /\ pc = "mark_defective"
    /\ ~call.dry
    /\ Raise("OSError")
    /\ UNCHANGED <<builderVars, last>>
    /\ UNCHANGED <<dirVars, args, call, env_files, i, result, listing, composeCalls,
                   env0, report0>>

\* update_yaml_report, lines 67-71, on a report that is a mapping: the
\* open for writing raises and the file is as it was, or the annotated
\* report is written and its rename raises.
UpdateYamlReportFails ==
    /\ pc = "update_yaml_report"
    /\ ~call.dry
    /\ \E data \in ReadReport(env_files[i]), step \in {"write", "rename"} :
          /\ IsDict(data.kind)
          /\ report0' = [report0 EXCEPT ![env_files[i]] = data]
          /\ IF step = "write"
             THEN /\ report' = [report EXCEPT ![env_files[i]] = data]
                  /\ UNCHANGED fsops
             ELSE /\ report' = [report EXCEPT ![env_files[i]] = Annotated(call.reason)]
                  /\ fsops' = Append(fsops, [op |-> "write", file |-> "report",
                                             ts |-> env_files[i]])
    /\ Raise("OSError")
    /\ UNCHANGED <<builderVars, last>>
    /\ UNCHANGED <<env, retired, args, call, env_files, i, result, listing,
                   composeCalls, env0>>

NextIO ==
    \/ Next
    \/ MarkDefectiveFails
    \/ UpdateYamlReportFails

SpecIO == Init /\ [][NextIO]_vars

\* ------------------------------------------------- sequences of invocations

\* The process exits: its locals are gone, the directory and the images
\* stay, and the next invocation starts from them.
Exit ==
    /\ pc = "done"
    /\ pc' = "idle"
    /\ last' = [call |-> call, result |-> result]
    /\ args' = NoArgs
    /\ call' = NoCall
    /\ env_files' = <<>>
    /\ i' = 0
    /\ result' = NoPath
    /\ raised' = "None"
    /\ outcome' = "None"
    /\ listing' = <<>>
    /\ composeCalls' = <<>>
    /\ fsops' = <<>>
    /\ build' = NoBuild
    /\ cmds' = <<>>
    /\ madeDirs' = {}
    /\ env0' = env
    /\ report0' = report
    /\ UNCHANGED <<env, report, retired, images, envLines, reportData>>

\* The command lines of the deployer in a build/deploy cycle: the default
\* selection, the listing, and rollbacks by one or two with a reason.
LifeArgVals ==
    {a \in ArgVals :
        /\ a.rollback \in {NoOpt, Opt(1), Opt(2)}
        /\ a.switch = NoOpt /\ a.file = NoPath /\ a.reason = "bad build"}

\* The configuration of the cycle: the one application of the tests.
LifeConfigVals == {c \in ConfigVals : Len(c) = 1 /\ c[1].name = App1}

\* A new artifact directory on a machine without images.
InitLife == InitBuild /\ images = {}

NextLife ==
    \/ \E a \in LifeArgVals : MainStart(a)
    \/ GetEnvFileEnter
    \/ MarkDefective
    \/ UpdateYamlReport
    \/ Select
    \/ \E tool \in ToolVals, restart \in BOOLEAN, stop \in BOOLEAN :
          Deploy(tool, restart, stop)
    \/ \E cfg \in LifeConfigVals, dry \in BOOLEAN : BuildStart(cfg, dry, TRUE)
    \/ \E exists \in BOOLEAN, ok \in BOOLEAN : CloneOrUpdateRepo(exists, ok)
    \/ \E rev \in RevParseVals, buildOk \in BOOLEAN : BuildDockerImage(rev, buildOk)
    \/ CreateConsolidatedEnv
    \/ GenerateConsolidatedReport
    \/ Exit

SpecLife == InitLife /\ [][NextLife]_vars

\* ------------------------------------------------ a dry run and its repeat

\* The call of the invocation before, made again without dry_run.
Rerun ==
    /\ last.call.caller # "None"
    /\ CallGetEnvFile(last.call.index, last.call.file, last.call.rollback,
                      last.call.reason, FALSE)

\* One dry-run deployer invocation over any directory; when it called
\* get_env_file, the process exits and the same call is made again without
\* dry_run, from the directory the dry run left.
NextDry ==
    \/ \E a \in ArgVals : a.dry /\ last = NoLast /\ MainStart(a)
    \/ \E index \in IndexVals, file \in FileVals, rollback \in BOOLEAN,
          reason \in ReasonVals :
          last = NoLast /\ CallGetEnvFile(index, file, rollback, reason, TRUE)
    \/ GetEnvFileEnter
    \/ MarkDefective
    \/ UpdateYamlReport
    \/ Select
    \/ \E tool \in ToolVals, restart \in BOOLEAN, stop \in BOOLEAN :
          Deploy(tool, restart, stop)
    \/ (call.dry /\ last = NoLast /\ Exit)
    \/ Rerun

SpecDry == Init /\ [][NextDry]_vars

\* ------------------------------------------------------------------ claims

\* The snapshots active before the invocation, and how many there are (M).
Active0 == {t \in Clocks : env0[t] = "active"}
M0 == Cardinality(Active0)

\* The newest-first position of an active snapshot: how many active
\* snapshots carry a later timestamp.
Position(t) == Cardinality({u \in Active0 : u > t})
AtPosition(k) == CHOOSE t \in Active0 : Position(t) = k

\* The snapshots the invocation renamed to .defect.
NewlyDefective == {t \in Clocks : env0[t] = "active" /\ env[t] = "defective"}

\* get_env_file was called and is over, by a return or by an exception.
Finished == call.caller # "None" /\ pc \in {"deploy", "done"}

\* get_env_file selects by index (no file name given), in rollback mode.
IndexRollback == call.rollback /\ call.file \in {NoPath, EmptyName}

\* No file of the directory was renamed or written, and none differs.
DirectoryUntouched ==
    /\ fsops = <<>>
    /\ env = env0
    /\ report = report0
    /\ \A t \in Clocks : retired[t] = Absent

\* C1 (as claimed): a non-dry rollback with index k over M >= k active
\* snapshots renames exactly the k newest to .defect, returns the snapshot
\* at newest-first position k (there is one when k < M), and leaves every
\* snapshot at a position >= k active.
C1_RollbackMarksExactlyK ==
    (Finished /\ IndexRollback /\ ~call.dry /\ 0 <= call.index /\ call.index <= M0)
    => /\ NewlyDefective = {t \in Active0 : Position(t) < call.index}
       /\ \A t \in Active0 : Position(t) >= call.index => env[t] = "active"
       /\ call.index < M0 => result = EnvPath(AtPosition(call.index))

\* C2 (as claimed): a rollback whose index is out of bounds (index >= M or
\* negative) selects nothing and renames or rewrites nothing.
C2_OutOfBoundsMarksNothing ==
    (Finished /\ IndexRollback /\ (call.index >= M0 \/ call.index < 0))
    => /\ result = NoPath
       /\ DirectoryUntouched

\* C2 (amended): a rollback whose index is out of bounds returns no target
\* and no compose command is invoked, but the candidates are marked first:
\* only snapshots among the M newest (index >= M), or among the M - j newest
\* (index -j), become defective, all of them when the call is not dry and
\* no exception ends it; nothing is marked when dry, or when index <= -M.
C2_OutOfBoundsSelectsNothing ==
    (Finished /\ IndexRollback /\ (call.index >= M0 \/ call.index < 0))
    => LET candidates ==
               IF call.index >= M0 THEN Active0
               ELSE {t \in Active0 : Position(t) < M0 + call.index}
       IN  /\ result = NoPath
           /\ pc = "done"
           /\ composeCalls = <<>>
           /\ NewlyDefective \subseteq candidates
           /\ (~call.dry /\ raised = "None") => NewlyDefective = candidates
           /\ (call.dry \/ call.index <= 0 - M0) => fsops = <<>>

\* C2 witness: a non-dry rollback with index M over M >= 2 snapshots ended
\* with no target and with all M snapshots defective.
C2_Witness ==
    /\ Finished /\ IndexRollback /\ ~call.dry
    /\ M0 >= 2 /\ call.index = M0
    /\ result = NoPath /\ raised = "None"
    /\ NewlyDefective = Active0

\* C3 (as claimed): the deployer run with --rollback M (and a reason, no
\* --switch, --file, --list or --dry) over M active snapshots invokes no
\* compose command and leaves no active snapshot, the M being defective.
C3_RollbackAllLeavesNoActive ==
    (/\ pc = "done" /\ call.caller = "main"
     /\ args.rollback = Opt(M0) /\ M0 >= 1
     /\ StrTruthy(args.reason) /\ ~OptTruthy(args.switch)
     /\ args.file = NoPath /\ ~args.list /\ ~args.dry)
    => /\ composeCalls = <<>>
       /\ GlobEnv(env) = {}
       /\ NewlyDefective = Active0

\* C4 (as claimed): when the compose tool is absent the invocation fails
\* with the tool-not-found error before anything else: no file of the
\* directory has been renamed or written when it is raised.
C4_ToolCheckedFirst ==
    raised = "RuntimeError" => fsops = <<>>

\* C5 (as claimed): in a rollback, a report that is missing or is not a
\* mapping is skipped without an exception, the remaining snapshots are
\* marked and the target at position k is returned.
C5_BadReportSkipped ==
    (/\ Finished /\ IndexRollback
     /\ 0 <= call.index /\ call.index < M0
     /\ \E t \in Active0 :
           Position(t) < call.index /\ ~IsDict(report0[t].kind)
                                    /\ report0[t] # Unobserved)
    => /\ raised \notin {"AttributeError", "YAMLError"}
       /\ result = EnvPath(AtPosition(call.index))
       /\ ~call.dry => NewlyDefective = {t \in Active0 : Position(t) < call.index}

\* C6: when an explicit file name is given to get_env_file, no snapshot is
\* renamed and no report is read, annotated or retired, whatever the index
\* and the rollback flag: the directory is as it was before the call.
C6_FilenameLeavesDirectory ==
    (call.caller # "None" /\ call.file \notin {NoPath, EmptyName})
    => DirectoryUntouched

\* C6 witness: a non-dry rollback call with index >= 1 and the name of an
\* existing file, over two or more active snapshots, returned that file.
C6_Witness ==
    /\ pc = "done" /\ call.caller = "api"
    /\ call.file = EnvPath(9) /\ call.rollback /\ ~call.dry /\ call.index >= 1
    /\ M0 >= 2
    /\ result = call.file

\* C7: the listing of a directory with M active snapshots has exactly M
\* entries with the indices 0..M-1, every active snapshot once, strictly
\* newest-first by timestamp, and no defective snapshot; the list
\* get_env_file works on is the same.
NewestFirst(names) ==
    /\ Len(names) = M0
    /\ {names[j] : j \in 1..Len(names)} = Active0
    /\ \A j, h \in 1..Len(names) : j < h => names[j] > names[h]

C7_ListingNewestFirst ==
    /\ (pc = "done" /\ args.list /\ outcome \in {"listed", "nothing_to_deploy"})
       => /\ Len(listing) = M0
          /\ \A j \in 1..Len(listing) :
                /\ listing[j].idx = j - 1
                /\ listing[j].name.suffix = ".env"
                /\ env0[listing[j].name.ts] = "active"
          /\ NewestFirst([j \in 1..Len(listing) |-> listing[j].name.ts])
    /\ (call.caller # "None" /\ pc # "get_env_file") => NewestFirst(env_files)

\* C7 witness: a listing of two active snapshots, of the builds 9 and 10,
\* beside a defective one.
C7_Witness ==
    /\ outcome = "listed"
    /\ Len(listing) = 2
    /\ listing[1].name = EnvPath(10) /\ listing[2].name = EnvPath(9)
    /\ \E t \in Clocks : env0[t] = "defective"

\* C8: after a non-dry rollback with reason r, every snapshot it marked
\* defective whose report was a mapping has that report annotated with
\* rollback = {timestamp, reason: r} and renamed to .yaml.defect; the
\* reports of all other snapshots, the target included, are as before; and
\* at any time a report is retired only if its snapshot is defective.
C8_ReportsAnnotatedAndRetired ==
    /\ (pc = "done" /\ IndexRollback /\ ~call.dry)
       => \A t \in Clocks :
             /\ (t \in NewlyDefective /\ IsDict(report0[t].kind))
                => /\ report[t] = Absent
                   /\ retired[t].kind = "mapping"
                   /\ retired[t].rollback.set
                   /\ retired[t].rollback.timestamp # <<>>
                   /\ retired[t].rollback.reason = call.reason
             /\ t \notin NewlyDefective
                => report[t] = report0[t] /\ retired[t] = Absent
    /\ \A t \in Clocks : retired[t] # Absent => env[t] = "defective"

\* C8 witness: a rollback with index 2 and reason "bad build" over three
\* snapshots retired the two newest reports, both mappings.
C8_Witness ==
    /\ pc = "done" /\ IndexRollback /\ ~call.dry
    /\ call.index = 2 /\ call.reason = "bad build"
    /\ M0 = 3
    /\ result = EnvPath(9)
    /\ \A t \in {10, 11} : IsDict(report0[t].kind) /\ retired[t] # Absent

\* C9 (as claimed): an invocation that gives --rollback (any value, 0
\* included) without --reason, or --rollback together with --switch (any
\* value, 0 included), ends with an error message and performs no action:
\* at no point has it changed a file or invoked a compose command.
C9_InvalidOptionsRejected ==
    (/\ pc # "idle" /\ call.caller # "api"
     /\ args.rollback.given
     /\ (~StrTruthy(args.reason) \/ args.switch.given))
    => /\ fsops = <<>>
       /\ composeCalls = <<>>

\* C10: a selection by index i outside rollback mode (no file name) returns
\* the snapshot at newest-first position i when 0 <= i < M and None
\* otherwise, and changes no file of the directory.
C10_PlainSelection ==
    (call.caller # "None" /\ ~call.rollback /\ call.file \in {NoPath, EmptyName})
    => /\ DirectoryUntouched
       /\ Finished
          => result = IF 0 <= call.index /\ call.index < M0
                      THEN EnvPath(AtPosition(call.index))
                      ELSE NoPath

\* C10 witness: index 1 over the active snapshots of the builds 9 and 10
\* returned the older one.
C10_Witness ==
    /\ pc = "done" /\ call.caller = "api" /\ ~call.rollback /\ call.file = NoPath
    /\ call.index = 1
    /\ Active0 = {9, 10}
    /\ result = EnvPath(9)

\* ---------------------------------------------------------- builder claims

\* A builder run has loaded its configuration; it ended with the env file
\* and the report written (not dry).
Building == build.timestamp # 0
BuildSucceeded == Building /\ pc = "done" /\ outcome = "built" /\ ~build.dry

\* The names the configuration lists, and the files the run wrote.
ConfigNames == {build.config[j].name : j \in 1..Len(build.config)}
EnvFilesWritten == {t \in Clocks : env[t] # env0[t]}
ReportsWritten == {t \in Clocks : report[t] # report0[t]}

\* C11 (as claimed): a successful non-dry build of a configuration with N
\* applications writes exactly one env file with exactly N lines and exactly
\* one report listing exactly N apps, both carrying the run's timestamp.
C11_OneLinePerConfiguredApp ==
    BuildSucceeded
    => /\ EnvFilesWritten = {build.timestamp}
       /\ ReportsWritten = {build.timestamp}
       /\ env[build.timestamp] = "active"
       /\ Len(envLines[build.timestamp]) = Len(build.config)
       /\ Len(reportData[build.timestamp].apps) = Len(build.config)
       /\ reportData[build.timestamp].timestamp = Format(build.timestamp)

\* C11 (amended): a successful non-dry build writes exactly one env file and
\* exactly one report, both carrying the run's timestamp, with one line and
\* one apps entry per distinct application name of the configuration (N of
\* each when the N names are pairwise distinct), the report's entry for a
\* name carrying the tag of that name's line.
C11_OneLinePerDistinctName ==
    BuildSucceeded
    => LET ts == build.timestamp
           lines == envLines[ts]
           apps == reportData[ts].apps
       IN  /\ EnvFilesWritten = {ts}
           /\ ReportsWritten = {ts}
           /\ env[ts] = "active"
           /\ fsops = << [op |-> "write", file |-> "env", ts |-> ts],
                         [op |-> "write", file |-> "report", ts |-> ts] >>
           /\ reportData[ts].timestamp = Format(ts)
           /\ reportData[ts].env_file = EnvPath(ts)
           /\ Len(lines) = Cardinality(ConfigNames)
           /\ Len(apps) = Cardinality(ConfigNames)
           /\ \A n \in ConfigNames :
                 /\ Cardinality({j \in 1..Len(lines) : lines[j].tag.name = n}) = 1
                 /\ Cardinality({j \in 1..Len(apps) : apps[j].name = n}) = 1
           /\ \A j \in 1..Len(apps) : apps[j].image_tag = lines[j].tag

\* C11 witness: a build of two applications of different names wrote two
\* lines and two apps entries.
C11_Witness ==
    /\ BuildSucceeded
    /\ Len(build.config) = 2 /\ Cardinality(ConfigNames) = 2
    /\ Len(envLines[build.timestamp]) = 2
    /\ Len(reportData[build.timestamp].apps) = 2

\* C12 (as claimed): docker build is never invoked for a tag of which the
\* local docker already holds an image.
C12_ExistingImageNotRebuilt ==
    \A j \in 1..Len(cmds) : cmds[j].cmd = "docker build" => ~cmds[j].existed

\* C13 (as claimed): once a subprocess of the run has exited with non-zero,
\* the run is aborted with an error, no env file and no report is written,
\* and no application is recorded with a tag.
C13_AnyFailureAborts ==
    (\E j \in 1..Len(cmds) : ~cmds[j].ok)
    => /\ pc = "done" /\ raised = "CalledProcessError"
       /\ EnvFilesWritten = {} /\ ReportsWritten = {}
       /\ \A j \in 1..Len(cmds) :
             (cmds[j].cmd = "git rev-parse" /\ ~cmds[j].ok)
             => \A h \in 1..Len(build.app_images) :
                   build.app_images[h].name # cmds[j].tag.name

\* C14: a builder run in dry-run mode executes no subprocess, creates no
\* directory and writes no file, whatever the configuration: the artifact
\* directory holds no env file and no report during and after the run.
C14_DryBuildWritesNothing ==
    (Building /\ build.dry)
    => /\ cmds = <<>>
       /\ madeDirs = {}
       /\ fsops = <<>>
       /\ \A t \in Clocks :
             /\ env[t] = "absent"
             /\ report[t] = Absent
             /\ envLines[t] = <<>>
             /\ reportData[t] = NoReportData

\* C14 witness: a dry run over two applications ended with both recorded
\* under the tag <name>:DRY.
C14_Witness ==
    /\ Building /\ build.dry /\ pc = "done" /\ outcome = "built"
    /\ Len(build.config) = 2
    /\ Len(build.app_images) = 2
    /\ \A j \in 1..2 : build.app_images[j].tag.hash = "DRY"

\* C15 (as claimed): the key of every env line is the normalized name of
\* its application followed by _IMAGE, so it contains only A-Z, 0-9 and the
\* underscore.
C15_KeysNormalized ==
    \A t \in Clocks : \A j \in 1..Len(envLines[t]) :
        /\ envLines[t][j].key = normalize_name(envLines[t][j].tag.name) \o ImageSuffix
        /\ Range(envLines[t][j].key) \subseteq Range(UpperCase) \cup Digits \cup {"_"}

\* ------------------------------------------- rollback order and lifecycle

\* C16: in every state of a rollback, the state left by a failing rename or
\* report update included, the snapshots already renamed to .defect are a
\* prefix of the newest-first order of the candidates: none is defective
\* while a snapshot that was active and newer is still active, and none
\* lies outside the candidates env_files[0:index].
C16_DefectivePrefix ==
    (call.caller # "None" /\ call.rollback)
    => /\ \A t \in NewlyDefective :
             \A u \in Active0 : u > t => env[u] = "defective"
       /\ \A t \in NewlyDefective : Position(t) < SliceEnd(call.index, M0)

\* C16 witness: a rollback of three over three snapshots was ended by a
\* failing file step when only the newest was renamed.
C16_Witness ==
    /\ raised = "OSError"
    /\ IndexRollback /\ ~call.dry /\ call.index = 3
    /\ Active0 = {9, 10, 11}
    /\ NewlyDefective = {11}

\* C17: over any sequence of builder and deployer invocations, in every
\* step a defective snapshot stays defective and a snapshot that is present
\* stays present, as env_<ts>.env or env_<ts>.env.defect.
C17_OneWayLossless ==
    [][\A t \in Clocks :
          /\ env[t] = "defective" => env'[t] = "defective"
          /\ env[t] # "absent" => env'[t] # "absent"]_vars

\* C17 witness: after three builds and rollbacks the two older snapshots
\* are defective and the newest has been deployed.
C17_Witness ==
    /\ env[9] = "defective" /\ env[10] = "defective" /\ env[11] = "active"
    /\ outcome = "deployed"
    /\ result = EnvPath(11)

\* C18 (as claimed): no deployer invocation, in any mode, returns a
\* defective snapshot as the deploy target.
C18_DefectiveNeverSelected ==
    (Finished /\ result # NoPath)
    => result.suffix = ".env" /\ env[result.ts] = "active"

\* C18 (amended): a selection by index (default, switch or rollback)
\* returns only an active snapshot, never one that is defective, the ones
\* the same call marked included; a selection by file name returns the
\* named file whenever it exists, a .defect file too.
C18_IndexNeverSelectsDefective ==
    (Finished /\ result # NoPath)
    => IF NameTruthy(call.file)
       THEN result = call.file /\ PathExists(env, result)
       ELSE /\ result.suffix = ".env"
            /\ env[result.ts] = "active"
            /\ env0[result.ts] = "active"

\* C18 witness: a rollback by one over a directory that holds a defective
\* snapshot newer than an active one returned the active one at position 1.
C18_Witness ==
    /\ Finished /\ IndexRollback /\ ~call.dry /\ call.index = 1
    /\ env0[11] = "defective" /\ env0[10] = "active" /\ env0[9] = "active"
    /\ result = EnvPath(9)

\* The invocation before this one was a non-dry rollback by index that
\* returned a target.
LastRollback ==
    /\ last.call.caller # "None"
    /\ last.call.rollback /\ ~last.call.dry
    /\ ~NameTruthy(last.call.file)
    /\ last.result # NoPath

\* C19: the target a successful non-dry rollback with index k < M returns
\* is the newest active snapshot of the directory it leaves; the listing
\* that follows has it at index 0, and the default selection (index 0, no
\* rollback) that follows returns it.
C19_RollbackTargetIsNewest ==
    /\ (/\ Finished /\ IndexRollback /\ ~call.dry /\ raised = "None"
        /\ 0 <= call.index /\ call.index < M0)
       => /\ result.suffix = ".env"
          /\ list_env_files(env)[1] = result.ts
          /\ \A u \in GlobEnv(env) : u <= result.ts
    /\ (LastRollback /\ outcome = "listed")
       => listing[1] = [idx |-> 0, name |-> last.result]
    /\ (/\ LastRollback /\ Finished /\ call.caller = "main"
        /\ ~call.rollback /\ call.index = 0)
       => result = last.result

\* C19 witness: after a rollback by two over three snapshots returned the
\* oldest, the default selection of the next invocation returned it too.
C19_Witness ==
    /\ LastRollback /\ last.call.index = 2 /\ last.result = EnvPath(9)
    /\ Finished /\ call.caller = "main" /\ ~call.rollback /\ call.index = 0
    /\ result = EnvPath(9)
    /\ env[10] = "defective" /\ env[11] = "defective"

\* C20 (as claimed): with an explicit file name, get_env_file returns the
\* file of that name when it exists and None only when it does not,
\* whatever the index and however many env_*.env snapshots are listed.
C20_FilenameBypassesListing ==
    (Finished /\ NameTruthy(call.file))
    => result = IF PathExists(env0, call.file) THEN call.file ELSE NoPath

\* -------------------------------------------------------- dry-run deployer

\* The call in progress repeats, without dry_run, the dry call of the
\* invocation before.
RepeatsDryCall ==
    /\ last.call.caller # "None" /\ last.call.dry
    /\ call.caller = "api" /\ ~call.dry
    /\ call.index = last.call.index /\ call.file = last.call.file
    /\ call.rollback = last.call.rollback /\ call.reason = last.call.reason

\* C21: a deployer invocation in dry-run mode renames no snapshot, rewrites
\* and renames no report and invokes no compose command, and the target
\* its get_env_file returned is the one the same call without dry_run
\* returns from the same directory, for every index, rollback flag and
\* file name (no target when the call ends with an exception).
C21_DryRunFaithful ==
    /\ (pc # "idle" /\ (args.dry \/ call.dry))
       => /\ DirectoryUntouched
          /\ composeCalls = <<>>
    /\ (RepeatsDryCall /\ Finished) => result = last.result

\* C21 witness: a dry rollback by two over three snapshots returned the
\* oldest, and so did its repeat without dry_run, which marked the two
\* newest.
C21_Witness ==
    /\ RepeatsDryCall /\ Finished
    /\ IndexRollback /\ call.index = 2
    /\ Active0 = {9, 10, 11}
    /\ result = EnvPath(9) /\ last.result = EnvPath(9)
    /\ NewlyDefective = {10, 11}

====
